---- MODULE Spec2Model ----
(***************************************************************************)
(* LocalTaskStore (src/backend/storage.py): the JSON-backed task store.    *)
(*                                                                         *)
(* A task is a Python dict.  It is modelled as a record over the keys of   *)
(* BlankTask in which a missing key has the value Absent (a text key)      *)
(* or AbsentN (a key holding a time, a date or a number), and Python's     *)
(* None is None / NoneN.  Timestamps (_now_iso) are integers read from     *)
(* `clock`; a caller-supplied timestamp is SuppliedTime, which no clock    *)
(* reading equals.  One call reads the clock once: the clock's granule is  *)
(* taken coarser than the duration of a handler.                           *)
(***************************************************************************)
EXTENDS Integers, Sequences, FiniteSets, TLC

VARIABLES
    tasks,       \* tasks.json: the "tasks" list of the last complete write
    file_state,  \* tasks.json: "missing" (not there), "complete", "truncated" (opened "w", not yet
                 \* written) or "corrupt" (two writers' bytes overlaid)
    clock,       \* the last value datetime.utcnow() returned
    result,      \* the last call of the sequential caller: what it was, what
                 \* it returned or raised, and (prev) the call made before it
    calls,       \* the number of calls made so far
    procs        \* the concurrent callers: position, call, local payload

vars == <<tasks, file_state, clock, result, calls, procs>>

----------------------------------------------------------------------------
(* Bound: the behaviours explored make at most MaxCalls calls. *)

MaxCalls == 4

(* Values *)

Absent == "<absent>"
None == "None"
AbsentN == -2
NoneN == -1
SuppliedTime == 0

Ids == {"a", "b"}
Allowed == {"todo", "in_progress", "done", "archived"}
Date1 == 20240101
Time1 == 900

Truthy(v) == v \notin {Absent, None, ""}
TruthyN(v) == v \notin {AbsentN, NoneN}

\* dict.get(key): None when the key is missing
Get(v) == IF v = Absent THEN None ELSE v
GetN(v) == IF v = AbsentN THEN NoneN ELSE v

\* a batch element that is no dict (None, say), and a value json.dump cannot
\* encode (a set or a Decimal, say), held in the confidence field
NotAMapping == [malformed |-> TRUE]
IsMapping(task) == "id" \in DOMAIN task
Unserializable == -3

BlankTask ==
    [id |-> Absent, title |-> Absent, canonical_text |-> Absent,
     status |-> Absent, priority |-> Absent,
     created_at |-> AbsentN, updated_at |-> AbsentN,
     note_id |-> Absent, user_id |-> Absent, workspace_id |-> Absent,
     due_date |-> AbsentN, due_time |-> AbsentN, completed_at |-> AbsentN,
     confidence |-> AbsentN, source_text |-> Absent]

----------------------------------------------------------------------------
(* _normalize_task_record *)

\* f"task-{abs(hash((task.get('canonical_text', ''), self._now_iso())))}"
FabricateId(task, now) ==
    "task-" \o (IF task.canonical_text = Absent THEN "" ELSE task.canonical_text)
            \o "@" \o ToString(now)

\* a faulty variant: the canonical text is not looked at
DefaultTitle_Fixed(task) == "Untitled Task"

\* rec.setdefault("title", task.get("canonical_text") or task.get("title") or ...)
\* runs its default only when "title" is missing, so task.get("title") is None
DefaultTitle(task) ==
    IF Truthy(task.canonical_text) THEN task.canonical_text ELSE "Untitled Task"

DefaultStatus(task) == IF Truthy(task.status) THEN task.status ELSE "todo"

DefaultPriority(task) == IF Truthy(task.priority) THEN task.priority ELSE "medium"

DefaultCreatedAt(task, now) == IF TruthyN(task.created_at) THEN task.created_at ELSE now

NormalizeTaskRecord(task, now) ==
    [task EXCEPT
        !.id = IF @ = Absent THEN FabricateId(task, now) ELSE @,
        !.title = IF @ = Absent THEN DefaultTitle(task) ELSE @,
        !.status = IF @ = Absent THEN DefaultStatus(task) ELSE @,
        !.priority = IF @ = Absent THEN DefaultPriority(task) ELSE @,
        !.created_at = IF @ = AbsentN THEN DefaultCreatedAt(task, now) ELSE @,
        !.updated_at = IF @ = AbsentN THEN now ELSE @,
        !.note_id = Get(task.note_id),
        !.user_id = Get(task.user_id),
        !.workspace_id = Get(task.workspace_id),
        !.due_date = GetN(task.due_date),
        !.due_time = GetN(task.due_time),
        !.completed_at = GetN(task.completed_at),
        !.confidence = GetN(task.confidence),
        !.source_text = Get(task.source_text)]

----------------------------------------------------------------------------
(* The handlers as functions of the loaded rows: each yields the rows to   *)
(* save (save = FALSE: _save is not reached), the outcome and the return   *)
(* value (written: the count; rows: the records returned).                 *)

Outcome(rows, save, outcome, written, returned) ==
    [tasks |-> rows, save |-> save, outcome |-> outcome,
     written |-> written, rows |-> returned]

Positions(rows, task_id) == {i \in DOMAIN rows : rows[i].id = task_id}

\* a faulty variant: the lookups by id stop at the last record with the id
SetMin_Last(S) == CHOOSE i \in S : \A j \in S : i >= j

\* the first index of a loop over the rows that meets its test
SetMin(S) == CHOOSE i \in S : \A j \in S : i <= j
SetMax(S) == CHOOSE i \in S : \A j \in S : i >= j

\* the record a lookup by id finds: the first one with that id
Find(rows, task_id) == rows[SetMin(Positions(rows, task_id))]

\* a faulty variant: an id held twice is indexed at its first record
IndexById_First(existing) ==
    [tid \in {existing[i].id : i \in {j \in DOMAIN existing : Truthy(existing[j].id)}}
        |-> SetMin(Positions(existing, tid))]

\* index_by_id = {t.get("id"): i for i, t in enumerate(existing) if t.get("id")}
IndexById(existing) ==
    [tid \in {existing[i].id : i \in {j \in DOMAIN existing : Truthy(existing[j].id)}}
        |-> SetMax(Positions(existing, tid))]

\* a faulty variant: the stamp left out: the payload's updated_at survives
StampUpdatedAt_Skipped(rec, now) == rec

\* rec["updated_at"] = self._now_iso()
StampUpdatedAt(rec, now) == [rec EXCEPT !.updated_at = now]

\* a faulty variant: every record of the batch is appended
Place_AlwaysAppends(existing, index_by_id, rec) == Append(existing, rec)

\* if tid in index_by_id: existing[index_by_id[tid]] = rec  else: existing.append(rec)
Place(existing, index_by_id, rec) ==
    IF rec.id \in DOMAIN index_by_id
    THEN [existing EXCEPT ![index_by_id[rec.id]] = rec]
    ELSE Append(existing, rec)

RECURSIVE UpsertLoop(_, _, _, _)
UpsertLoop(existing, index_by_id, batch, now) ==
    IF batch = <<>> THEN existing
    ELSE UpsertLoop(
            Place(existing, index_by_id,
                  StampUpdatedAt(NormalizeTaskRecord(Head(batch), now), now)),
            index_by_id, Tail(batch), now)

\* rec = dict(task) raises TypeError on a batch element that is no mapping:
\* the loop is left before _save is reached
save_extracted_tasks(rows, batch, now) ==
    IF batch = <<>>
    THEN Outcome(rows, FALSE, "ok", 0, <<>>)
    ELSE IF \E k \in DOMAIN batch : ~IsMapping(batch[k])
    THEN Outcome(rows, FALSE, "TypeError", 0, <<>>)
    ELSE Outcome(UpsertLoop(rows, IndexById(rows), batch, now), TRUE, "ok",
                 Len(batch), <<>>)

\* a faulty variant: completed_at is set on done and otherwise left as it was
SetStatus_KeepsCompletedAt(t, status, now) ==
    [t EXCEPT !.status = status,
              !.updated_at = now,
              !.completed_at = IF status = "done" THEN now ELSE @]

\* the status transition of update_task_status on the record found
SetStatus(t, status, now) ==
    [t EXCEPT !.status = status,
              !.updated_at = now,
              !.completed_at = IF status = "done" THEN now ELSE NoneN]

\* a faulty variant: the lookup made before the status check
update_task_status_LookupFirst(rows, task_id, status, now) ==
    IF Positions(rows, task_id) = {}
    THEN Outcome(rows, FALSE, "KeyError", 0, <<>>)
    ELSE IF status \notin Allowed
    THEN Outcome(rows, FALSE, "ValueError", 0, <<>>)
    ELSE LET i == SetMin(Positions(rows, task_id))
             t == SetStatus(rows[i], status, now)
         IN Outcome([rows EXCEPT ![i] = t], TRUE, "ok", 0, <<t>>)

update_task_status(rows, task_id, status, now) ==
    IF status \notin Allowed
    THEN Outcome(rows, FALSE, "ValueError", 0, <<>>)
    ELSE IF Positions(rows, task_id) = {}
    THEN Outcome(rows, FALSE, "KeyError", 0, <<>>)
    ELSE LET i == SetMin(Positions(rows, task_id))
             t == SetStatus(rows[i], status, now)
         IN Outcome([rows EXCEPT ![i] = t], TRUE, "ok", 0, <<t>>)

\* a faulty variant: an omitted due_time keeps the time the record had
Reschedule_KeepsTime(t, due_date, due_time, now) ==
    [t EXCEPT !.due_date = due_date,
              !.due_time = IF due_time = NoneN THEN @ ELSE due_time,
              !.updated_at = now]

\* t["due_date"] = due_date; t["due_time"] = due_time; t["updated_at"] = now
Reschedule(t, due_date, due_time, now) ==
    [t EXCEPT !.due_date = due_date, !.due_time = due_time, !.updated_at = now]

\* a faulty variant: an id without a record is given one instead of KeyError
reschedule_task_Creates(rows, task_id, due_date, due_time, now) ==
    IF Positions(rows, task_id) = {}
    THEN LET t == Reschedule([BlankTask EXCEPT !.id = task_id], due_date, due_time, now)
         IN Outcome(Append(rows, t), TRUE, "ok", 0, <<t>>)
    ELSE LET i == SetMin(Positions(rows, task_id))
             t == Reschedule(rows[i], due_date, due_time, now)
         IN Outcome([rows EXCEPT ![i] = t], TRUE, "ok", 0, <<t>>)

reschedule_task(rows, task_id, due_date, due_time, now) ==
    IF Positions(rows, task_id) = {}
    THEN Outcome(rows, FALSE, "KeyError", 0, <<>>)
    ELSE LET i == SetMin(Positions(rows, task_id))
             t == Reschedule(rows[i], due_date, due_time, now)
         IN Outcome([rows EXCEPT ![i] = t], TRUE, "ok", 0, <<t>>)

\* a faulty variant: archiving also clears completed_at
Archive_ClearsCompletedAt(t, now) ==
    [t EXCEPT !.status = "archived", !.updated_at = now, !.completed_at = NoneN]

\* t["status"] = "archived"; t["updated_at"] = now
Archive(t, now) == [t EXCEPT !.status = "archived", !.updated_at = now]

\* new_rows = [t for t in rows if t.get("id") != task_id]
RECURSIVE Without(_, _)
Without(rows, task_id) ==
    IF rows = <<>> THEN <<>>
    ELSE IF Head(rows).id = task_id THEN Without(Tail(rows), task_id)
    ELSE <<Head(rows)>> \o Without(Tail(rows), task_id)

\* a faulty variant: the hard delete without its length comparison
delete_task_Silent(rows, task_id, soft_delete, now) ==
    IF soft_delete
    THEN IF Positions(rows, task_id) = {}
         THEN Outcome(rows, FALSE, "KeyError", 0, <<>>)
         ELSE LET i == SetMin(Positions(rows, task_id))
              IN Outcome([rows EXCEPT ![i] = Archive(rows[i], now)], TRUE, "ok", 0, <<>>)
    ELSE Outcome(Without(rows, task_id), TRUE, "ok", 0, <<>>)

delete_task(rows, task_id, soft_delete, now) ==
    IF soft_delete
    THEN IF Positions(rows, task_id) = {}
         THEN Outcome(rows, FALSE, "KeyError", 0, <<>>)
         ELSE LET i == SetMin(Positions(rows, task_id))
              IN Outcome([rows EXCEPT ![i] = Archive(rows[i], now)], TRUE, "ok", 0, <<>>)
    ELSE LET new_rows == Without(rows, task_id)
         IN IF Len(new_rows) = Len(rows)
            THEN Outcome(rows, FALSE, "KeyError", 0, <<>>)
            ELSE Outcome(new_rows, TRUE, "ok", 0, <<>>)

----------------------------------------------------------------------------
(* The queries.  A date "YYYY-MM-DD" is the integer YYYYMMDD and a time     *)
(* "HH:MM" the integer HHMM: the order of the fixed-width strings.         *)

SentinelDate == 99991231
SentinelTime == 2359

\* (x.get("due_date") or "9999-12-31", x.get("due_time") or "23:59")
SortKey(t) ==
    <<IF TruthyN(t.due_date) THEN t.due_date ELSE SentinelDate,
      IF TruthyN(t.due_time) THEN t.due_time ELSE SentinelTime>>

KeyLess(k1, k2) == k1[1] < k2[1] \/ (k1[1] = k2[1] /\ k1[2] < k2[2])

\* list.sort is stable: a record goes behind the records whose key is not greater
RECURSIVE Insert(_, _)
Insert(sorted, t) ==
    IF sorted = <<>> THEN <<t>>
    ELSE IF KeyLess(SortKey(t), SortKey(Head(sorted))) THEN <<t>> \o sorted
    ELSE <<Head(sorted)>> \o Insert(Tail(sorted), t)

RECURSIVE SortRows(_)
SortRows(rows) ==
    IF rows = <<>> THEN <<>>
    ELSE Insert(SortRows(SubSeq(rows, 1, Len(rows) - 1)), rows[Len(rows)])

\* a faulty variant: archived records are left out like done ones
get_tasks_by_date_range_HidesArchived(rows, start_date, end_date, workspace_id, user_id, include_done) ==
    LET Keep(t) ==
            /\ TruthyN(t.due_date)
            /\ start_date <= t.due_date /\ t.due_date <= end_date
            /\ workspace_id # None => t.workspace_id = workspace_id
            /\ user_id # None => t.user_id = user_id
            /\ ~include_done => t.status \notin {"done", "archived"}
    IN Outcome(rows, FALSE, "ok", 0, SortRows(SelectSeq(rows, Keep)))

get_tasks_by_date_range(rows, start_date, end_date, workspace_id, user_id, include_done) ==
    LET Keep(t) ==
            /\ TruthyN(t.due_date)
            /\ start_date <= t.due_date /\ t.due_date <= end_date
            /\ workspace_id # None => t.workspace_id = workspace_id
            /\ user_id # None => t.user_id = user_id
            /\ ~include_done => t.status # "done"
    IN Outcome(rows, FALSE, "ok", 0, SortRows(SelectSeq(rows, Keep)))

\* a faulty variant: records without a due date are left out
get_tasks_by_note_SkipsUndated(rows, note_id, workspace_id) ==
    LET Keep(t) ==
            /\ t.note_id = note_id
            /\ TruthyN(t.due_date)
            /\ workspace_id # None => t.workspace_id = workspace_id
    IN Outcome(rows, FALSE, "ok", 0, SortRows(SelectSeq(rows, Keep)))

get_tasks_by_note(rows, note_id, workspace_id) ==
    LET Keep(t) ==
            /\ t.note_id = note_id
            /\ workspace_id # None => t.workspace_id = workspace_id
    IN Outcome(rows, FALSE, "ok", 0, SortRows(SelectSeq(rows, Keep)))

----------------------------------------------------------------------------
(* Inputs of the calls *)

Raw(id) == [BlankTask EXCEPT !.id = id]
RawBogus(id) == [BlankTask EXCEPT !.id = id, !.status = "bogus"]
RawFull(id) ==
    [BlankTask EXCEPT !.id = id, !.title = "t", !.status = "done",
                      !.created_at = SuppliedTime, !.updated_at = SuppliedTime]

Batches ==
    {<<>>,
     <<Raw("a")>>, <<Raw("b")>>, <<RawFull("a")>>, <<RawBogus("b")>>,
     <<Raw("a"), RawFull("b")>>,
     <<Raw("a"), RawFull("a")>>}

Statuses == Allowed \cup {"bogus"}

\* the values a clock reading of the next call can return
Nows == {clock, clock + 1}

----------------------------------------------------------------------------
(* One caller at a time: every call runs from _load to _save undisturbed. *)

Init ==
    /\ tasks = <<>>
    /\ file_state = "complete"
    /\ clock = 1
    /\ result = [op |-> "__init__", args |-> <<>>, outcome |-> "ok",
                 written |-> 0, rows |-> <<>>, prev |-> <<>>]
    /\ calls = 0
    /\ procs = <<>>

Return(op, args, r, now) ==
    /\ calls < MaxCalls
    /\ calls' = calls + 1
    /\ file_state = "complete"
    /\ tasks' = IF r.save THEN r.tasks ELSE tasks
    /\ clock' = IF r.save THEN now ELSE clock
    /\ result' = [op |-> op, args |-> args, outcome |-> r.outcome,
                  written |-> r.written, rows |-> r.rows,
                  prev |-> <<result.op, result.args>>]
    /\ UNCHANGED <<file_state, procs>>

SaveExtractedTasks(batch, now) ==
    Return("save_extracted_tasks", <<batch>>,
           save_extracted_tasks(tasks, batch, now), now)

UpdateTaskStatus(task_id, status, now) ==
    Return("update_task_status", <<task_id, status>>,
           update_task_status(tasks, task_id, status, now), now)

RescheduleTask(task_id, due_date, due_time, now) ==
    Return("reschedule_task", <<task_id, due_date, due_time>>,
           reschedule_task(tasks, task_id, due_date, due_time, now), now)

DeleteTask(task_id, soft_delete, now) ==
    Return("delete_task", <<task_id, soft_delete>>,
           delete_task(tasks, task_id, soft_delete, now), now)

Next ==
    \/ \E batch \in Batches, now \in Nows : SaveExtractedTasks(batch, now)
    \/ \E task_id \in Ids, status \in Statuses, now \in Nows :
          UpdateTaskStatus(task_id, status, now)
    \/ \E task_id \in Ids, due_time \in {NoneN, Time1}, now \in Nows :
          RescheduleTask(task_id, Date1, due_time, now)
    \/ \E task_id \in Ids, soft_delete \in BOOLEAN, now \in Nows :
          DeleteTask(task_id, soft_delete, now)

Spec == Init /\ [][Next]_vars

----------------------------------------------------------------------------
(* The sequential caller with the two queries.  The records upserted differ *)
(* in what the queries look at: note, workspace, user, status, due date and *)
(* due time, the sentinel time 23:59 of the sort key among them.            *)

Date0 == 20231231
Date2 == 20240102

QTask(id, note_id, workspace_id, user_id, status, due_date, due_time) ==
    [BlankTask EXCEPT !.id = id, !.note_id = note_id,
                      !.workspace_id = workspace_id, !.user_id = user_id,
                      !.status = status,
                      !.due_date = due_date, !.due_time = due_time]

QBatches ==
    {<<QTask("a", "n1", "w1", "u1", "todo", Date1, NoneN),
       QTask("b", "n1", "w1", "u2", "done", Date1, SentinelTime),
       QTask("e", "n1", "w1", "u1", "todo", AbsentN, AbsentN)>>,
     <<QTask("c", "n1", "w2", "u1", "done", Date1, Time1),
       QTask("d", "n2", "w1", "u1", "in_progress", Date2, Time1)>>,
     <<QTask("a", "n2", "w2", "u2", "todo", Date2, SentinelTime)>>}

QIds == {"a", "c"}
QStatuses == {"done", "todo"}
QRanges == {<<Date1, Date1>>, <<Date2, Date2>>, <<Date0, Date2>>}
QNotes == {"n1", "n2"}
QWorkspaces == {None, "w1"}
QUsers == {None, "u1"}

GetTasksByDateRange(start_date, end_date, workspace_id, user_id, include_done, now) ==
    Return("get_tasks_by_date_range",
           <<start_date, end_date, workspace_id, user_id, include_done>>,
           get_tasks_by_date_range(tasks, start_date, end_date, workspace_id,
                                   user_id, include_done),
           now)

GetTasksByNote(note_id, workspace_id, now) ==
    Return("get_tasks_by_note", <<note_id, workspace_id>>,
           get_tasks_by_note(tasks, note_id, workspace_id), now)

NextQuery ==
    \/ \E batch \in QBatches : SaveExtractedTasks(batch, clock + 1)
    \/ \E task_id \in QIds, status \in QStatuses :
          UpdateTaskStatus(task_id, status, clock + 1)
    \/ \E task_id \in QIds : RescheduleTask(task_id, Date2, NoneN, clock + 1)
    \/ \E task_id \in QIds, soft_delete \in BOOLEAN :
          DeleteTask(task_id, soft_delete, clock + 1)
    \/ \E range \in QRanges, workspace_id \in QWorkspaces, user_id \in QUsers,
          include_done \in BOOLEAN :
          GetTasksByDateRange(range[1], range[2], workspace_id, user_id,
                              include_done, clock + 1)
    \/ \E note_id \in QNotes, workspace_id \in QWorkspaces :
          GetTasksByNote(note_id, workspace_id, clock + 1)

SpecQuery == Init /\ [][NextQuery]_vars

----------------------------------------------------------------------------
(* _normalize_task_record applied to one payload.  The payloads differ in   *)
(* which keys they hold and in whether a key that is held has a value, None *)
(* or the empty string.                                                     *)

\* the keys normalize copies with task.get: all missing, all None, all given
PassThroughs ==
    {[note_id |-> Absent, user_id |-> Absent, workspace_id |-> Absent,
      due_date |-> AbsentN, due_time |-> AbsentN, completed_at |-> AbsentN,
      confidence |-> AbsentN, source_text |-> Absent],
     [note_id |-> None, user_id |-> None, workspace_id |-> None,
      due_date |-> NoneN, due_time |-> NoneN, completed_at |-> NoneN,
      confidence |-> NoneN, source_text |-> None],
     [note_id |-> "n1", user_id |-> "u1", workspace_id |-> "w1",
      due_date |-> Date1, due_time |-> Time1, completed_at |-> SuppliedTime,
      confidence |-> 1, source_text |-> "s"]}

Payloads ==
    {[id |-> id, title |-> title, canonical_text |-> canonical_text,
      status |-> status, priority |-> priority,
      created_at |-> AbsentN, updated_at |-> AbsentN,
      note_id |-> p.note_id, user_id |-> p.user_id,
      workspace_id |-> p.workspace_id,
      due_date |-> p.due_date, due_time |-> p.due_time,
      completed_at |-> p.completed_at,
      confidence |-> p.confidence, source_text |-> p.source_text] :
        id \in {Absent, "a"},
        title \in {Absent, None, "", "t"},
        canonical_text \in {Absent, None, "", "c"},
        status \in {Absent, None, "done", "bogus"},
        priority \in {Absent, None, "high"},
        p \in PassThroughs}

\* one call of _normalize_task_record on a new store: it reads the clock
\* and returns the record; the collection is not touched
Normalize(task, now) ==
    /\ calls = 0
    /\ calls < MaxCalls
    /\ calls' = calls + 1
    /\ clock' = now
    /\ result' = [op |-> "_normalize_task_record", args |-> <<task>>,
                  outcome |-> "ok", written |-> 0,
                  rows |-> <<NormalizeTaskRecord(task, now)>>,
                  prev |-> <<result.op, result.args>>]
    /\ UNCHANGED <<tasks, file_state, procs>>

NextNormalize == \E task \in Payloads, now \in Nows : Normalize(task, now)

SpecNormalize == Init /\ [][NextNormalize]_vars

----------------------------------------------------------------------------
(* The sequential caller on a medium whose writes can fail.  _save opens    *)
(* the file with "w", which empties it, and json.dump then writes the       *)
(* payload piece by piece: when json.dump raises (TypeError on a value it   *)
(* cannot encode, OSError from the medium) the file is left with the pieces *)
(* written so far, which is no JSON document, and every later _load raises. *)

Serializable(rows) == \A i \in DOMAIN rows : rows[i].confidence # Unserializable

RawUnserializable(id) == [BlankTask EXCEPT !.id = id, !.confidence = Unserializable]

FailBatches ==
    {<<>>, <<Raw("a")>>, <<Raw("b")>>, <<RawFull("a")>>,
     <<Raw("b"), NotAMapping>>, <<Raw("b"), RawUnserializable("a")>>}

\* a whole call: before_load tells that the handler returns or raises before
\* its _load, write_fails that the medium fails while _save writes
Attempt(op, args, r, before_load, now, write_fails) ==
    /\ calls < MaxCalls
    /\ calls' = calls + 1
    /\ LET load_raises == ~before_load /\ file_state # "complete"
           save_raises == /\ ~load_raises
                          /\ r.save
                          /\ (write_fails \/ ~Serializable(r.tasks))
           saved == ~load_raises /\ r.save /\ ~save_raises
       IN /\ tasks' = IF save_raises THEN <<>>
                      ELSE IF saved THEN r.tasks ELSE tasks
          /\ file_state' = IF save_raises THEN "truncated" ELSE file_state
          /\ clock' = IF saved \/ save_raises THEN now ELSE clock
          /\ result' = [op |-> op, args |-> args,
                        outcome |-> IF load_raises THEN "JSONDecodeError"
                                    ELSE IF save_raises
                                    THEN IF Serializable(r.tasks)
                                         THEN "OSError" ELSE "TypeError"
                                    ELSE r.outcome,
                        written |-> IF load_raises \/ save_raises THEN 0 ELSE r.written,
                        rows |-> IF load_raises \/ save_raises THEN <<>> ELSE r.rows,
                        prev |-> <<result.op, result.args>>]
    /\ UNCHANGED procs

AttemptSaveExtractedTasks(batch, now, write_fails) ==
    Attempt("save_extracted_tasks", <<batch>>,
            save_extracted_tasks(tasks, batch, now), batch = <<>>, now, write_fails)

AttemptUpdateTaskStatus(task_id, status, now, write_fails) ==
    Attempt("update_task_status", <<task_id, status>>,
            update_task_status(tasks, task_id, status, now),
            status \notin Allowed, now, write_fails)

AttemptDeleteTask(task_id, soft_delete, now, write_fails) ==
    Attempt("delete_task", <<task_id, soft_delete>>,
            delete_task(tasks, task_id, soft_delete, now), FALSE, now, write_fails)

NextFail ==
    \/ \E batch \in FailBatches, now \in Nows, write_fails \in BOOLEAN :
          AttemptSaveExtractedTasks(batch, now, write_fails)
    \/ \E task_id \in Ids, status \in Statuses, now \in Nows, write_fails \in BOOLEAN :
          AttemptUpdateTaskStatus(task_id, status, now, write_fails)
    \/ \E task_id \in Ids, soft_delete \in BOOLEAN, now \in Nows, write_fails \in BOOLEAN :
          AttemptDeleteTask(task_id, soft_delete, now, write_fails)

SpecFail == Init /\ [][NextFail]_vars

----------------------------------------------------------------------------
(* Construction.  Before the first LocalTaskStore is made the storage root  *)
(* has no tasks.json (file_state "missing") and there is no store to call.  *)
(* A store can be constructed over the root again at any time.              *)

NoStore ==
    [op |-> "<no store>", args |-> <<>>, outcome |-> "ok", written |-> 0,
     rows |-> <<>>, prev |-> <<>>]

InitRoot ==
    /\ tasks = <<>>
    /\ file_state = "missing"
    /\ clock = 1
    /\ result = NoStore
    /\ calls = 0
    /\ procs = <<>>

\* a faulty variant: the file is not created
Construct_CreatesNothing ==
    /\ result' = [op |-> "__init__", args |-> <<>>, outcome |-> "ok",
                  written |-> 0, rows |-> <<>>,
                  prev |-> <<result.op, result.args>>]
    /\ UNCHANGED <<tasks, file_state, clock, calls, procs>>

\* __init__: if not os.path.exists(self.tasks_file): json.dump({"tasks": []}, f)
Construct ==
    /\ tasks' = IF file_state = "missing" THEN <<>> ELSE tasks
    /\ file_state' = IF file_state = "missing" THEN "complete" ELSE file_state
    /\ result' = [op |-> "__init__", args |-> <<>>, outcome |-> "ok",
                  written |-> 0, rows |-> <<>>,
                  prev |-> <<result.op, result.args>>]
    /\ UNCHANGED <<clock, calls, procs>>

\* the methods are those of a constructed store
Constructed == result.op # "<no store>"

RootBatches ==
    {<<QTask("a", "n1", "w1", "u1", "todo", Date1, NoneN)>>, <<Raw("b")>>}

NextRoot ==
    \/ Construct
    \/ /\ Constructed
       /\ \E batch \in RootBatches :
             Attempt("save_extracted_tasks", <<batch>>,
                     save_extracted_tasks(tasks, batch, clock + 1),
                     batch = <<>>, clock + 1, FALSE)
    \/ /\ Constructed
       /\ \E task_id \in Ids, status \in {"done", "bogus"} :
             Attempt("update_task_status", <<task_id, status>>,
                     update_task_status(tasks, task_id, status, clock + 1),
                     status \notin Allowed, clock + 1, FALSE)
    \/ /\ Constructed
       /\ \E task_id \in Ids, soft_delete \in BOOLEAN :
             Attempt("delete_task", <<task_id, soft_delete>>,
                     delete_task(tasks, task_id, soft_delete, clock + 1),
                     FALSE, clock + 1, FALSE)
    \/ /\ Constructed
       /\ Attempt("get_tasks_by_note", <<"n1", None>>,
                  get_tasks_by_note(tasks, "n1", None), FALSE, clock + 1, FALSE)
    \/ /\ Constructed
       /\ Attempt("get_tasks_by_date_range", <<Date1, Date2, None, None, TRUE>>,
                  get_tasks_by_date_range(tasks, Date1, Date2, None, None, TRUE),
                  FALSE, clock + 1, FALSE)

SpecRoot == InitRoot /\ [][NextRoot]_vars

----------------------------------------------------------------------------
(* Concurrent callers.  Nothing in LocalTaskStore serializes them, so a    *)
(* call is the steps in which it touches tasks.json: _load reads it,       *)
(* _save's open(..., "w") truncates it, and the write that json.dump and   *)
(* the close of the file make puts the payload at offset 0.  What a call   *)
(* computes between its _load and its _save touches nothing shared, and is *)
(* part of its _load step.  Each caller makes one call.                    *)

Procs == {"p1", "p2"}

RawNote(id) == [BlankTask EXCEPT !.id = id, !.note_id = "n1"]

\* the store the callers find: task "a", upserted at time 1
SeedTasks == save_extracted_tasks(<<>>, <<RawNote("a")>>, 1).tasks

Mutations ==
    {"save_extracted_tasks", "update_task_status", "reschedule_task", "delete_task"}

ConcCalls ==
    {<<"save_extracted_tasks", <<[RawNote("a") EXCEPT !.status = "done"]>>>>,
     <<"save_extracted_tasks", <<RawNote("b")>>>>,
     <<"save_extracted_tasks", <<RawNote("c")>>>>,
     <<"update_task_status", "a", "done">>,
     <<"reschedule_task", "a", Date1, NoneN>>,
     <<"delete_task", "a", TRUE>>,
     <<"delete_task", "b", FALSE>>,
     <<"get_tasks_by_note", "n1", None>>,
     <<"get_tasks_by_date_range", Date1, Date1, None, None, TRUE>>}

\* the handler of a call, on the rows it loaded
Handle(call, rows, now) ==
    CASE call[1] = "save_extracted_tasks" -> save_extracted_tasks(rows, call[2], now)
      [] call[1] = "update_task_status" -> update_task_status(rows, call[2], call[3], now)
      [] call[1] = "reschedule_task" -> reschedule_task(rows, call[2], call[3], call[4], now)
      [] call[1] = "delete_task" -> delete_task(rows, call[2], call[3], now)
      [] call[1] = "get_tasks_by_note" -> get_tasks_by_note(rows, call[2], call[3])
      [] call[1] = "get_tasks_by_date_range" ->
            get_tasks_by_date_range(rows, call[2], call[3], call[4], call[5], call[6])

\* the checks a handler makes before its _load
ReturnsBeforeLoad(call) ==
    \/ call[1] = "save_extracted_tasks" /\ call[2] = <<>>
    \/ call[1] = "update_task_status" /\ call[3] \notin Allowed

Idle ==
    [pc |-> "idle", call |-> <<>>, payload |-> <<>>, observed |-> "",
     outcome |-> "", rows |-> <<>>]

InitConc ==
    /\ tasks = SeedTasks
    /\ file_state = "complete"
    /\ clock = 1
    /\ result = [op |-> "__init__", args |-> <<>>, outcome |-> "ok",
                 written |-> 0, rows |-> <<>>, prev |-> <<>>]
    /\ calls = 0
    /\ procs = [p \in Procs |-> Idle]

\* a caller enters a handler
Call(p, call) ==
    /\ procs[p].pc = "idle"
    /\ calls < MaxCalls
    /\ calls' = calls + 1
    /\ procs' = [procs EXCEPT ![p].pc = "called", ![p].call = call]
    /\ UNCHANGED <<tasks, file_state, clock, result>>

\* _load, and what the handler does with the rows up to its _save or return:
\* json.load raises on a file that is empty or not one JSON document
Load(p, now) ==
    /\ procs[p].pc = "called"
    /\ LET call == procs[p].call
           r == Handle(call, tasks, now)
       IN IF ReturnsBeforeLoad(call)
          THEN /\ procs' = [procs EXCEPT ![p].pc = "done",
                                         ![p].outcome = Handle(call, <<>>, now).outcome]
               /\ clock' = clock
          ELSE IF file_state # "complete"
          THEN /\ procs' = [procs EXCEPT ![p].pc = "done", ![p].observed = file_state,
                                         ![p].outcome = "JSONDecodeError"]
               /\ clock' = clock
          ELSE /\ procs' = [procs EXCEPT ![p].pc = IF r.save THEN "saving" ELSE "done",
                                         ![p].observed = file_state,
                                         ![p].payload = r.tasks,
                                         ![p].outcome = IF r.save THEN "" ELSE r.outcome,
                                         ![p].rows = r.rows]
               /\ clock' = IF r.save THEN now ELSE clock
    /\ UNCHANGED <<tasks, file_state, result, calls>>

\* _save: open(self.tasks_file, "w") leaves the file empty
SaveOpen(p) ==
    /\ procs[p].pc = "saving"
    /\ tasks' = <<>>
    /\ file_state' = "truncated"
    /\ procs' = [procs EXCEPT ![p].pc = "opened"]
    /\ UNCHANGED <<clock, result, calls>>

\* _save: json.dump and the close write the payload from offset 0.  Over a
\* file that another writer filled since the open, the payload replaces the
\* bytes it covers: the file is the payload when the payload is the longer
\* one, and the payload followed by the rest of the other one otherwise.
SaveWrite(p, covers) ==
    /\ procs[p].pc = "opened"
    /\ LET mine == procs[p].payload
           clean == \/ file_state = "truncated"
                    \/ file_state = "complete" /\ Len(mine) > Len(tasks)
                    \/ file_state = "complete" /\ Len(mine) = Len(tasks) /\ covers
                    \/ file_state = "corrupt" /\ covers
       IN /\ file_state = "truncated" => covers
          /\ (file_state = "complete" /\ Len(mine) # Len(tasks)) => covers
          /\ tasks' = IF clean THEN mine ELSE <<>>
          /\ file_state' = IF clean THEN "complete" ELSE "corrupt"
    /\ procs' = [procs EXCEPT ![p].pc = "done", ![p].outcome = "ok"]
    /\ UNCHANGED <<clock, result, calls>>

NextConc ==
    \E p \in Procs :
        \/ \E call \in ConcCalls : Call(p, call)
        \/ \E now \in Nows : Load(p, now)
        \/ SaveOpen(p)
        \/ \E covers \in BOOLEAN : SaveWrite(p, covers)

SpecConc == InitConc /\ [][NextConc]_vars

----------------------------------------------------------------------------
(* Properties of the store under concurrent callers *)

AllReturned == \A p \in Procs : procs[p].pc = "done"

BatchIds(batch) == {batch[k].id : k \in DOMAIN batch}

\* the rows a call leaves behind when it runs alone on rows
After(call, rows, now) ==
    LET r == Handle(call, rows, now) IN IF r.save THEN r.tasks ELSE rows

\* C1: when all callers run upsert_batch concurrently on batches of disjoint
\* ids, then once all calls have returned the persisted collection contains
\* every record of every batch (stated of the runs in which every call
\* returned normally and left a well-formed file).
C1_ConcurrentUpsertsLoseNothing ==
    (/\ AllReturned
     /\ file_state = "complete"
     /\ \A p \in Procs :
           procs[p].call[1] = "save_extracted_tasks" /\ procs[p].outcome = "ok"
     /\ \A p, q \in Procs :
           p # q => BatchIds(procs[p].call[2]) \cap BatchIds(procs[q].call[2]) = {})
    => \A p \in Procs : \A k \in DOMAIN procs[p].call[2] :
          \E j \in DOMAIN tasks :
             tasks[j] = Find(procs[p].payload, procs[p].call[2][k].id)

\* C2: the mutating calls are serialized: once concurrent mutating calls have
\* all returned, the persisted collection is what the same calls leave behind
\* when they run one after the other in some order (stated of the runs that
\* left a well-formed file).
C2_MutationsSerialize ==
    (/\ AllReturned
     /\ file_state = "complete"
     /\ \A p \in Procs :
           procs[p].call[1] \in Mutations /\ procs[p].outcome # "JSONDecodeError")
    => \E p, q \in Procs : \E t1, t2 \in 1..clock :
          /\ p # q
          /\ t1 <= t2
          /\ tasks = After(procs[q].call, After(procs[p].call, SeedTasks, t1), t2)

\* C3: a query running beside a mutating call loads a complete collection,
\* never an empty or half-written file.
C3_QueriesSeeCompleteFile ==
    \A p \in Procs :
        (/\ procs[p].pc = "done"
         /\ procs[p].call[1] \in {"get_tasks_by_note", "get_tasks_by_date_range"})
        => procs[p].observed = "complete"

----------------------------------------------------------------------------
(* Properties of the store under one caller *)

Ok(op) == result.op = op /\ result.outcome = "ok"

\* C4: every persisted record has completed_at non-null if and only if its
\* status is done.
C4_CompletedAtIffDone ==
    \A i \in DOMAIN tasks :
        (tasks[i].completed_at # NoneN) <=> (tasks[i].status = "done")

\* C5: the status of every persisted record is one of todo, in_progress,
\* done, archived.
C5_StatusIsEnumerated ==
    \A i \in DOMAIN tasks : tasks[i].status \in Allowed

\* C6: no two records of the persisted collection have the same id.
C6_IdsAreUnique ==
    \A i, j \in DOMAIN tasks : tasks[i].id = tasks[j].id => i = j

\* C7: created_at is immutable: a call never changes the created_at of an id
\* that has a record before it and after it (ids held by one record each, so
\* that the record meant is not in doubt).
C7_CreatedAtImmutable ==
    [][\A task_id \in Ids :
          (/\ Cardinality(Positions(tasks, task_id)) = 1
           /\ Cardinality(Positions(tasks', task_id)) = 1)
          => Find(tasks', task_id).created_at = Find(tasks, task_id).created_at]_vars

\* the positions of rows2 that hold a record rows1 does not hold there
Written(rows1, rows2) ==
    {j \in DOMAIN rows2 : j > Len(rows1) \/ rows2[j] # rows1[j]}

\* a step that is a call of op
Called(op) == calls' = calls + 1 /\ result'.op = op

\* C8: after a successful upsert_batch, set_status, reschedule or soft delete
\* every record the call wrote has updated_at equal to the time of the call,
\* whatever updated_at the payload supplied.
C8_UpdatedAtIsNow ==
    [][/\ (Called("save_extracted_tasks") /\ result'.args[1] # <<>>) =>
            /\ \A j \in Written(tasks, tasks') : tasks'[j].updated_at = clock'
            /\ \A k \in DOMAIN result'.args[1] :
                  \E j \in DOMAIN tasks' :
                     /\ tasks'[j].id = result'.args[1][k].id
                     /\ tasks'[j].updated_at = clock'
       /\ (/\ \/ Called("update_task_status")
              \/ Called("reschedule_task")
              \/ Called("delete_task") /\ result'.args[2]
           /\ result'.outcome = "ok") =>
            /\ Find(tasks', result'.args[1]).updated_at = clock'
            /\ \A j \in Written(tasks, tasks') : tasks'[j].updated_at = clock']_vars

\* C8's case: an upsert whose payload supplied another updated_at has returned
C8_Witness ==
    /\ Ok("save_extracted_tasks")
    /\ \E k \in DOMAIN result.args[1] :
          /\ result.args[1][k].updated_at = SuppliedTime
          /\ \E j \in DOMAIN tasks :
                tasks[j].id = result.args[1][k].id /\ tasks[j].updated_at = clock

\* C9: set_status with a status outside the four fails with ValueError and
\* leaves the persisted collection unchanged, whether or not the id exists.
C9_InvalidStatusRejected ==
    [][(Called("update_task_status") /\ result'.args[2] \notin Allowed)
          => result'.outcome = "ValueError" /\ tasks' = tasks]_vars

\* C9's case: an invalid status was refused for an id that has a record
C9_Witness ==
    /\ result.op = "update_task_status"
    /\ result.args[2] \notin Allowed
    /\ result.outcome = "ValueError"
    /\ Positions(tasks, result.args[1]) # {}

\* C10: set_status with a valid status, reschedule, soft delete and hard
\* delete of an id that has no record fail with KeyError and leave the
\* persisted collection as it was.
C10_NotFoundLeavesStore ==
    [][(/\ \/ Called("update_task_status") /\ result'.args[2] \in Allowed
           \/ Called("reschedule_task")
           \/ Called("delete_task")
        /\ Positions(tasks, result'.args[1]) = {})
          => result'.outcome = "KeyError" /\ tasks' = tasks]_vars

\* C10's case: a hard delete of a missing id failed on a store that holds
\* another record
C10_Witness ==
    /\ result.op = "delete_task"
    /\ result.args[2] = FALSE
    /\ result.outcome = "KeyError"
    /\ Positions(tasks, result.args[1]) = {}
    /\ tasks # <<>>

\* C11: a set_status with one of the four statuses on an id that has a record
\* succeeds whatever status and completed_at the record had (so every status
\* is reachable from every status); the record persisted and returned has
\* that status, and completed_at is the time of the call when the status is
\* done and null otherwise.
C11_SetStatusTransition ==
    [][(/\ Called("update_task_status")
        /\ result'.args[2] \in Allowed
        /\ Positions(tasks, result'.args[1]) # {})
          => /\ result'.outcome = "ok"
             /\ result'.rows = <<Find(tasks', result'.args[1])>>
             /\ Find(tasks', result'.args[1]).status = result'.args[2]
             /\ Find(tasks', result'.args[1]).completed_at =
                   IF result'.args[2] = "done" THEN clock' ELSE NoneN]_vars

\* C11's case: a record set to done by the call before has left done again:
\* its completed_at is null
C11_Witness ==
    /\ Ok("update_task_status")
    /\ result.args[2] \in {"todo", "archived"}
    /\ result.prev = <<"update_task_status", <<result.args[1], "done">> >>
    /\ result.rows[1].status = result.args[2]
    /\ result.rows[1].completed_at = NoneN

\* C12: a successful reschedule sets due_date and due_time of the record to
\* the values given (a null due_time included) and changes no other field of
\* it but updated_at; the record returned is the record persisted.
C12_RescheduleFrame ==
    [][(Called("reschedule_task") /\ Positions(tasks, result'.args[1]) # {})
          => LET i == SetMin(Positions(tasks, result'.args[1]))
             IN /\ result'.outcome = "ok"
                /\ result'.rows = <<tasks'[i]>>
                /\ tasks'[i].due_date = result'.args[2]
                /\ tasks'[i].due_time = result'.args[3]
                /\ \A f \in DOMAIN BlankTask \ {"due_date", "due_time", "updated_at"} :
                      tasks'[i][f] = tasks[i][f]]_vars

\* C12's case: a record given a due_time by the reschedule before is
\* rescheduled without one: its due_time is null
C12_Witness ==
    /\ Ok("reschedule_task")
    /\ result.args[3] = NoneN
    /\ result.prev = <<"reschedule_task", <<result.args[1], Date1, Time1>> >>
    /\ result.rows[1].due_time = NoneN
    /\ result.rows[1].due_date = Date1

\* C14: upsert is idempotent by id: when a batch of one record that supplies
\* its id is upserted a second time, the collection has as many records as
\* after the first time, as many of them with that id (one, when no id is
\* held twice), and the one the upsert wrote has updated_at equal to the time
\* of the second call.
C14_UpsertIdempotent ==
    [][(/\ Called("save_extracted_tasks")
        /\ result.op = "save_extracted_tasks"
        /\ result'.args = result.args
        /\ Len(result'.args[1]) = 1
        /\ Truthy(result'.args[1][1].id))
          => LET tid == result'.args[1][1].id
             IN /\ result'.outcome = "ok"
                /\ Len(tasks') = Len(tasks)
                /\ Cardinality(Positions(tasks', tid)) = Cardinality(Positions(tasks, tid))
                /\ C6_IdsAreUnique => Cardinality(Positions(tasks', tid)) = 1
                /\ tasks'[SetMax(Positions(tasks', tid))].updated_at = clock'
                /\ \A j \in DOMAIN tasks :
                      tasks'[j].id # tid => tasks'[j] = tasks[j]]_vars

\* C14's case: the fully specified record a was upserted twice in a row, the
\* second time later than the first: one record has the id, with the later
\* time
C14_Witness ==
    /\ Ok("save_extracted_tasks")
    /\ result.args = << <<RawFull("a")>> >>
    /\ result.prev = <<"save_extracted_tasks", result.args>>
    /\ Cardinality(Positions(tasks, "a")) = 1
    /\ Find(tasks, "a").updated_at = clock
    /\ clock > 1

\* C19: upsert places by id.  A batch record whose id is in the collection
\* replaces the record indexed under that id (the last one holding it) at its
\* position, the last such batch record winning; every other record of the
\* collection keeps its position and content; the batch records whose id is
\* not in the collection are appended at the end in batch order; the call
\* returns the number of records of the batch.  An empty batch returns 0 and
\* writes nothing.
C19_UpsertPlacesById ==
    [][Called("save_extracted_tasks") =>
          LET batch == result'.args[1]
              Rec(k) == StampUpdatedAt(NormalizeTaskRecord(batch[k], clock'), clock')
              Known(k) == Positions(tasks, batch[k].id) # {}
              IsNew(raw) == Positions(tasks, raw.id) = {}
              news == SelectSeq(batch, IsNew)
              LastOf(k) == \A k2 \in DOMAIN batch : batch[k2].id = batch[k].id => k2 <= k
          IN /\ result'.outcome = "ok"
             /\ result'.written = Len(batch)
             /\ batch = <<>> => tasks' = tasks /\ clock' = clock
             /\ Len(tasks') = Len(tasks) + Len(news)
             /\ \A j \in DOMAIN tasks :
                   /\ tasks'[j].id = tasks[j].id
                   /\ (\/ tasks[j].id \notin BatchIds(batch)
                       \/ j # SetMax(Positions(tasks, tasks[j].id)))
                         => tasks'[j] = tasks[j]
             /\ \A k \in DOMAIN batch :
                   (Known(k) /\ LastOf(k))
                      => tasks'[SetMax(Positions(tasks, batch[k].id))] = Rec(k)
             /\ \A m \in DOMAIN news :
                   tasks'[Len(tasks) + m] =
                      StampUpdatedAt(NormalizeTaskRecord(news[m], clock'), clock')]_vars

\* C19's case: a batch of the known id a and the new id b has been upserted
\* into a collection that held a: a is replaced where it was and b is the
\* last record
C19_Witness ==
    /\ Ok("save_extracted_tasks")
    /\ result.args = << <<Raw("a"), RawFull("b")>> >>
    /\ result.written = 2
    /\ Len(tasks) = 2
    /\ tasks[1].id = "a" /\ tasks[1].updated_at = clock
    /\ tasks[1].created_at = clock
    /\ tasks[2].id = "b" /\ tasks[2].updated_at = clock
    /\ result.prev = <<"save_extracted_tasks", << <<RawFull("a")>> >> >>

\* C23: single-record mutations touch one record only.  A successful
\* set_status, reschedule or soft delete of task_id leaves the collection as
\* long as it was, every position with the id it had, and every record but
\* the first one with id task_id as it was; a successful hard delete leaves
\* exactly the records with another id, in the order they had.
C23_MutationsTouchOneRecord ==
    [][/\ (/\ \/ Called("update_task_status")
              \/ Called("reschedule_task")
              \/ Called("delete_task") /\ result'.args[2]
           /\ result'.outcome = "ok") =>
            /\ Len(tasks') = Len(tasks)
            /\ \A j \in DOMAIN tasks :
                  /\ tasks'[j].id = tasks[j].id
                  /\ (\/ tasks[j].id # result'.args[1]
                      \/ \E j2 \in DOMAIN tasks :
                            j2 < j /\ tasks[j2].id = result'.args[1])
                        => tasks'[j] = tasks[j]
       /\ (Called("delete_task") /\ ~result'.args[2] /\ result'.outcome = "ok") =>
            LET Other(t) == t.id # result'.args[1]
            IN tasks' = SelectSeq(tasks, Other)]_vars

\* C23's case: the id a is held by two records and set_status(a, archived)
\* has succeeded: the first one is archived at the time of the call, the
\* second one is as it was
C23_Witness ==
    /\ Ok("update_task_status")
    /\ result.args = <<"a", "archived">>
    /\ Len(tasks) >= 2
    /\ tasks[1].id = "a" /\ tasks[2].id = "a"
    /\ tasks[1].status = "archived" /\ tasks[1].updated_at = clock
    /\ tasks[2].status = "done" /\ tasks[2].updated_at < clock

----------------------------------------------------------------------------
(* Properties of the sequential caller with the queries *)

\* the number of times the record t occurs in rows
Count(rows, t) == Cardinality({i \in DOMAIN rows : rows[i] = t})

IdSet(rows) == {rows[i].id : i \in DOMAIN rows}

\* C13: soft delete versus hard delete.  A successful soft delete leaves the
\* collection as long as it was, the record found has status archived and
\* the completed_at it had, and query_by_note on its note_id returns it; a
\* successful hard delete leaves no record with the id; an id without a
\* record gets one by an upsert only, and the queries return records of the
\* collection only, archived ones of the note asked for included.
C13_SoftVersusHardDelete ==
    [][/\ (Called("delete_task") /\ result'.outcome = "ok" /\ result'.args[2]) =>
            LET i == SetMin(Positions(tasks, result'.args[1]))
            IN /\ Len(tasks') = Len(tasks)
               /\ tasks'[i].id = result'.args[1]
               /\ tasks'[i].status = "archived"
               /\ tasks'[i].completed_at = tasks[i].completed_at
               /\ Count(get_tasks_by_note(tasks', tasks'[i].note_id, None).rows,
                        tasks'[i]) > 0
       /\ (Called("delete_task") /\ result'.outcome = "ok" /\ ~result'.args[2]) =>
            Positions(tasks', result'.args[1]) = {}
       /\ \A j \in DOMAIN tasks' :
            Positions(tasks, tasks'[j].id) = {} => Called("save_extracted_tasks")
       /\ (Called("get_tasks_by_note") \/ Called("get_tasks_by_date_range")) =>
            \A k \in DOMAIN result'.rows : Count(tasks', result'.rows[k]) > 0
       /\ Called("get_tasks_by_note") =>
            \A j \in DOMAIN tasks' :
               (/\ tasks'[j].status = "archived"
                /\ tasks'[j].note_id = result'.args[1]
                /\ result'.args[2] \in {None, tasks'[j].workspace_id})
                  => Count(result'.rows, tasks'[j]) > 0]_vars

\* C13's case: the record c, completed earlier, was soft deleted by the call
\* before, and query_by_note on its note returns it archived with its
\* completed_at
C13_Witness ==
    /\ Ok("get_tasks_by_note")
    /\ result.prev = <<"delete_task", <<"c", TRUE>> >>
    /\ \E k \in DOMAIN result.rows :
          /\ result.rows[k].id = "c"
          /\ result.rows[k].status = "archived"
          /\ result.rows[k].completed_at # NoneN

\* C15: query_by_date_range returns exactly the records of the collection
\* that have a due_date, within [start_date, end_date], of the workspace and
\* of the user when one is given, and not done unless include_done; archived
\* records are returned like any other record that is not done.
C15_DateRangeReturnsExactly ==
    Ok("get_tasks_by_date_range") =>
        LET Match(t) ==
                /\ t.due_date # NoneN
                /\ result.args[1] <= t.due_date /\ t.due_date <= result.args[2]
                /\ result.args[3] # None => t.workspace_id = result.args[3]
                /\ result.args[4] # None => t.user_id = result.args[4]
                /\ ~result.args[5] => t.status # "done"
        IN /\ \A i \in DOMAIN tasks :
                Count(result.rows, tasks[i]) =
                   IF Match(tasks[i]) THEN Count(tasks, tasks[i]) ELSE 0
           /\ \A k \in DOMAIN result.rows : Count(tasks, result.rows[k]) > 0

\* C15's case: a query without done records, for one workspace, returned an
\* archived record and left out a done record of the range and a record of
\* another range
C15_Witness ==
    /\ Ok("get_tasks_by_date_range")
    /\ result.args = <<Date1, Date1, "w1", None, FALSE>>
    /\ \E k \in DOMAIN result.rows : result.rows[k].status = "archived"
    /\ \E i \in DOMAIN tasks :
          /\ tasks[i].status = "done" /\ tasks[i].due_date = Date1
          /\ tasks[i].workspace_id = "w1"
    /\ \E i \in DOMAIN tasks : tasks[i].due_date = Date2

\* C16: the rows of both queries are in ascending order of (due_date,
\* due_time) with nulls last: a record without due_date never precedes one
\* with a due_date, and among records of one due_date a record without
\* due_time never precedes one with a due_time, 23:59 included.
C16_SortedNullsLast ==
    (Ok("get_tasks_by_note") \/ Ok("get_tasks_by_date_range")) =>
        \A i, j \in DOMAIN result.rows :
            i < j =>
               LET t == result.rows[i]
                   u == result.rows[j]
               IN /\ ~(t.due_date = NoneN /\ u.due_date # NoneN)
                  /\ (t.due_date # NoneN /\ u.due_date # NoneN)
                        => t.due_date <= u.due_date
                  /\ (t.due_date = u.due_date /\ t.due_time = NoneN)
                        => u.due_time = NoneN
                  /\ (/\ t.due_date = u.due_date
                      /\ t.due_time # NoneN /\ u.due_time # NoneN)
                        => t.due_time <= u.due_time

\* C17: query_by_note returns exactly the records of the collection whose
\* note_id is the one given and, when a workspace is given, whose
\* workspace_id is that one: every status, and records without due_date.
C17_NoteReturnsExactly ==
    Ok("get_tasks_by_note") =>
        LET Match(t) ==
                /\ t.note_id = result.args[1]
                /\ result.args[2] # None => t.workspace_id = result.args[2]
        IN /\ \A i \in DOMAIN tasks :
                Count(result.rows, tasks[i]) =
                   IF Match(tasks[i]) THEN Count(tasks, tasks[i]) ELSE 0
           /\ \A k \in DOMAIN result.rows : Count(tasks, result.rows[k]) > 0

\* C17's case: a query for note n1 in workspace w1 returned a record without
\* due_date and an archived one, and left out a record of another workspace
\* and a record of another note
C17_Witness ==
    /\ Ok("get_tasks_by_note")
    /\ result.args = <<"n1", "w1">>
    /\ \E k \in DOMAIN result.rows : result.rows[k].due_date = NoneN
    /\ \E k \in DOMAIN result.rows : result.rows[k].status = "archived"
    /\ \E i \in DOMAIN tasks : tasks[i].note_id = "n1" /\ tasks[i].workspace_id = "w2"
    /\ \E i \in DOMAIN tasks : tasks[i].note_id = "n2"

----------------------------------------------------------------------------
(* Property of the sequential caller on a medium whose writes can fail *)

\* C18: upsert_batch is all-or-nothing: when the call fails, because a
\* record of the batch cannot be normalized or because the write of the
\* collection fails, the persisted collection is what it was before the call.
C18_UpsertAllOrNothing ==
    [][(Called("save_extracted_tasks") /\ result'.outcome # "ok")
          => tasks' = tasks /\ file_state' = file_state]_vars

----------------------------------------------------------------------------
(* Property of _normalize_task_record *)

\* C21: normalize fills defaults and only defaults.  A key the payload holds
\* is supplied, whatever its value.  The title of the record is the supplied
\* title, else the canonical text when there is one, else "Untitled Task";
\* the status is the supplied status, else todo; the priority is the supplied
\* priority, else medium; a supplied id is kept; note_id, user_id,
\* workspace_id, due_date, due_time, completed_at, confidence and
\* source_text are the supplied values, or null when not supplied.
C21_NormalizeFillsDefaults ==
    result.op = "_normalize_task_record" =>
        LET task == result.args[1]
            rec == result.rows[1]
        IN /\ rec.title = IF task.title # Absent THEN task.title
                          ELSE IF task.canonical_text \notin {Absent, None, ""}
                          THEN task.canonical_text
                          ELSE "Untitled Task"
           /\ rec.status = IF task.status # Absent THEN task.status ELSE "todo"
           /\ rec.priority = IF task.priority # Absent THEN task.priority ELSE "medium"
           /\ task.id # Absent => rec.id = task.id
           /\ \A f \in {"note_id", "user_id", "workspace_id", "source_text"} :
                 rec[f] = IF task[f] = Absent THEN None ELSE task[f]
           /\ \A f \in {"due_date", "due_time", "completed_at", "confidence"} :
                 rec[f] = IF task[f] = AbsentN THEN NoneN ELSE task[f]

\* C21's case: a payload without title, status, priority and correlation
\* keys, with a canonical text, was normalized: the title is the canonical
\* text, the defaults and the nulls are filled in and the id is kept
C21_Witness ==
    /\ result.op = "_normalize_task_record"
    /\ result.args[1].title = Absent
    /\ result.args[1].canonical_text = "c"
    /\ result.args[1].status = Absent
    /\ result.args[1].note_id = Absent
    /\ result.args[1].id = "a"
    /\ result.rows[1].title = "c"
    /\ result.rows[1].status = "todo"
    /\ result.rows[1].note_id = None
    /\ result.rows[1].id = "a"

----------------------------------------------------------------------------
(* Property of construction *)

\* C22: the store auto-initializes.  Constructing a store over a root
\* without tasks.json creates the empty collection, and constructing one
\* over a root that holds a collection leaves the collection as it is; every
\* call of a constructed store then ends without a storage error, and the
\* queries of the empty collection return the empty sequence.
C22_AutoInitializes ==
    [][/\ (result'.op = "__init__" /\ calls' = calls) =>
            /\ file_state = "missing" => tasks' = <<>> /\ file_state' = "complete"
            /\ file_state = "complete" => tasks' = tasks /\ file_state' = "complete"
       /\ calls' = calls + 1 =>
            result'.outcome \in {"ok", "KeyError", "ValueError"}
       /\ (/\ Called("get_tasks_by_note") \/ Called("get_tasks_by_date_range")
           /\ result.op = "__init__"
           /\ result.prev[1] = "<no store>")
             => result'.outcome = "ok" /\ result'.rows = <<>>]_vars

\* C22's case: the first store was constructed over the root without
\* tasks.json and its first call, a query, returned the empty sequence
C22_Witness ==
    /\ Ok("get_tasks_by_note")
    /\ result.prev = <<"__init__", <<>>>>
    /\ calls = 1
    /\ result.rows = <<>>
    /\ tasks = <<>>
    /\ file_state = "complete"

====
